---- MODULE Spec2Model ----
(***************************************************************************)
(* Model of the query-result caching layer of the geospatial API:          *)
(* GeoCache (src/redis_cache.py) over a Redis database, and the cache-aside *)
(* endpoints of src/backend/app.py that use it.                             *)
(*                                                                          *)
(* Redis keys and key prefixes are sequences of one-character strings, so   *)
(* that Redis' glob matching of KEYS can be computed character by           *)
(* character.  Python values are tagged records [t, v]; JSON text is a      *)
(* string built as json.dumps builds it.                                    *)
(***************************************************************************)
EXTENDS Integers, Sequences, FiniteSets, TLC

VARIABLES
    now,      \* the Redis server's clock, in seconds
    up,       \* TRUE iff the Redis server answers
    store,    \* the Redis database: key -> [data, exp]
    meta,     \* history: per key, what the last successful set was asked to store
    last,     \* history: the last GeoCache call and what it returned
    pc,       \* per request handler: where it is in its endpoint
    req,      \* per request handler: the request it is serving
    res,      \* per request handler: the result its query computed
    probe,    \* history: per request handler, what its cache probe saw, whether it
              \* wrote, and whether its key was invalidated after its query ran
    computes, \* history: per request handler, how often its request ran the query
    scanned,  \* per caller of invalidate_by_prefix: the keys KEYS returned, not yet deleted
    kin,      \* key derivation: the inputs drawn
    kout,     \* key derivation: the keys derived
    client,   \* which geoadd signature the installed redis-py has
    index,    \* the sorted set geo:points: a set of [name, lon, lat]
    placed,   \* history: per name, the coordinates the server last accepted
    geo       \* history: the last call of a geospatial method

vars == <<now, up, store, meta, last, pc, req, res, probe, computes, scanned,
          kin, kout, client, index, placed, geo>>

(***************************************************************************)
(* Bounds of the model.                                                     *)
(***************************************************************************)
MaxTime == 2       \* the clock stops here
MaxTTL == 2        \* explicit ttl arguments range over 0..MaxTTL
MaxLon == 2        \* points lie on the equator at longitudes 0..MaxLon
DefaultTTL == 2    \* the ttl_seconds the cache is constructed with

(***************************************************************************)
(* Python values.                                                           *)
(***************************************************************************)
PyNone == [t |-> "none", v |-> 0]
PyBool(b) == [t |-> "bool", v |-> b]
PyInt(n) == [t |-> "int", v |-> n]
PyFloat(n) == [t |-> "float", v |-> n]     \* the float n.0
PyStr(s) == [t |-> "str", v |-> s]
PyList(items) == [t |-> "list", v |-> items]
PyDict(items) == [t |-> "dict", v |-> items]  \* <<name, value>> in insertion order
PyObject == [t |-> "object", v |-> 0]         \* a value json cannot serialize
PyCycle == [t |-> "cycle", v |-> 0]           \* a list that contains itself

\* bool(x) as the `if cached_result:` and `if data:` tests evaluate it
Truthy(x) ==
    CASE x.t = "none" -> FALSE
      [] x.t = "bool" -> x.v
      [] x.t \in {"int", "float"} -> x.v # 0
      [] x.t = "str" -> x.v # ""
      [] x.t \in {"list", "dict"} -> x.v # <<>>
      [] OTHER -> TRUE

\* Python's order of the mapping keys of the model (code-point order)
KeyOrder == <<"c", "limit", "polygon", "t", "types">>

KeyRank(name) == CHOOSE i \in 1..Len(KeyOrder) : KeyOrder[i] = name

\* sorted(items) by key, by insertion: json.dumps(..., sort_keys=True)
RECURSIVE InsertItem(_, _)
InsertItem(sorted, item) ==
    IF sorted = <<>> THEN <<item>>
    ELSE IF KeyRank(item[1]) < KeyRank(Head(sorted)[1])
         THEN <<item>> \o sorted
         ELSE <<Head(sorted)>> \o InsertItem(Tail(sorted), item)

\* the items left in insertion order (sort_keys dropped)
SortItems_none(items) == items

RECURSIVE SortItems(_)
SortItems(items) ==
    IF items = <<>> THEN <<>>
    ELSE InsertItem(SortItems(Tail(items)), Head(items))

RECURSIVE Serializable(_)
Serializable(x) ==
    CASE x.t = "object" -> FALSE            \* TypeError
      [] x.t = "cycle" -> FALSE             \* ValueError: Circular reference detected
      [] x.t = "list" -> \A i \in 1..Len(x.v) : Serializable(x.v[i])
      [] x.t = "dict" -> \A i \in 1..Len(x.v) : Serializable(x.v[i][2])
      [] OTHER -> TRUE

RECURSIVE Join(_, _)
Join(texts, sep) ==
    IF texts = <<>> THEN ""
    ELSE IF Len(texts) = 1 THEN texts[1]
    ELSE texts[1] \o sep \o Join(Tail(texts), sep)

\* json.dumps(x, sort_keys=sort) with the default separators
RECURSIVE Dumps(_, _)
Dumps(x, sort) ==
    CASE x.t = "none" -> "null"
      [] x.t = "bool" -> IF x.v THEN "true" ELSE "false"
      [] x.t = "int" -> ToString(x.v)
      [] x.t = "float" -> ToString(x.v) \o ".0"
      [] x.t = "str" -> "\"" \o x.v \o "\""
      [] x.t = "list" ->
            "[" \o Join([i \in 1..Len(x.v) |-> Dumps(x.v[i], sort)], ", ") \o "]"
      [] x.t = "dict" ->
            LET items == IF sort THEN SortItems(x.v) ELSE x.v
            IN "{" \o Join([i \in 1..Len(items) |->
                              "\"" \o items[i][1] \o "\": " \o Dumps(items[i][2], sort)],
                           ", ") \o "}"

(***************************************************************************)
(* The values the endpoints cache, and json.loads on the texts of these.    *)
(***************************************************************************)
Row == PyDict(<< <<"t", PyStr("county")>>, <<"c", PyInt(1)>> >>)

DataUniverse ==
    { PyNone, PyList(<<>>), PyList(<<Row>>), Row }

\* json.loads(text): the value whose JSON text this is
Loadable(text) == \E x \in DataUniverse : Dumps(x, FALSE) = text
Loads(text) == CHOOSE x \in DataUniverse : Dumps(x, FALSE) = text

(***************************************************************************)
(* Redis keys, as sequences of characters.                                  *)
(***************************************************************************)
Colon == <<":">>
Geo == <<"g", "e", "o">>
Nearby == <<"n", "e", "a", "r", "b", "y">>
Within == <<"w", "i", "t", "h", "i", "n">>
Years == <<"y", "e", "a", "r", "s">>
GeoPoints == <<"g", "e", "o", ":", "p", "o", "i", "n", "t", "s">>

KeyNearbyA == Geo \o Colon \o Nearby \o Colon \o <<"a">>
KeyNearbyB == Geo \o Colon \o Nearby \o Colon \o <<"b">>
KeyWithinC == Geo \o Colon \o Within \o Colon \o <<"c">>

\* the keys the store-level calls of the model use
StoreKeys == {KeyNearbyA, KeyNearbyB, KeyWithinC, Years}

\* the keys of the calls that exercise single entries
EntryKeys == {KeyNearbyA, Years}

\* the keys of the calls that exercise invalidation
PrefixKeys == {KeyNearbyA, KeyNearbyB, KeyWithinC}

\* the prefix arguments invalidate_by_prefix is called with
Prefixes ==
    { Nearby, Within,
      Geo \o Colon \o Nearby \o Colon,           \* "geo:nearby:"
      <<"z", "i", "p">>,                          \* matches no key
      <<"*">>,
      <<"n", "e", "a", "r", "b", "?">>,
      <<"n", "e", "a", "r", "[", "b", "]", "y">> }

StartsWith(s, p) == Len(p) <= Len(s) /\ SubSeq(s, 1, Len(p)) = p

(***************************************************************************)
(* The Redis server: SETEX, GET, DEL, KEYS, PING on a database              *)
(* key -> [data, exp].  exp is the second at which the key expires; a key   *)
(* is gone once the clock has reached it.                                   *)
(***************************************************************************)
\* (exp = -1: a key without expiry, as Redis reports its TTL)
Live(st, t) == [k \in {x \in DOMAIN st : st[x].exp = -1 \/ st[x].exp > t} |-> st[k]]

\* the members of a [...] class of a glob pattern, scanned from position j
RECURSIVE ClassScan(_, _, _, _)
ClassScan(p, j, ch, m) ==
    IF j > Len(p) THEN [match |-> m, rest |-> <<>>]
    ELSE IF p[j] = "\\" /\ j + 1 <= Len(p) THEN ClassScan(p, j + 2, ch, m \/ p[j + 1] = ch)
    ELSE IF p[j] = "]" THEN [match |-> m, rest |-> SubSeq(p, j + 1, Len(p))]
    ELSE ClassScan(p, j + 1, ch, m \/ p[j] = ch)

\* Redis' glob matching of a key against a KEYS pattern
RECURSIVE GlobMatch(_, _)
GlobMatch(p, s) ==
    IF p = <<>> THEN s = <<>>
    ELSE CASE p[1] = "*" ->
                \E i \in 0..Len(s) : GlobMatch(Tail(p), SubSeq(s, i + 1, Len(s)))
           [] p[1] = "?" -> s # <<>> /\ GlobMatch(Tail(p), Tail(s))
           [] p[1] = "[" ->
                /\ s # <<>>
                /\ LET neg == Len(p) >= 2 /\ p[2] = "^"
                       c == ClassScan(p, IF neg THEN 3 ELSE 2, s[1], FALSE)
                   IN /\ (c.match # neg)
                      /\ GlobMatch(c.rest, Tail(s))
           [] p[1] = "\\" /\ Len(p) >= 2 ->
                s # <<>> /\ p[2] = s[1] /\ GlobMatch(SubSeq(p, 3, Len(p)), Tail(s))
           [] OTHER -> s # <<>> /\ p[1] = s[1] /\ GlobMatch(Tail(p), Tail(s))

\* a SETEX that writes the new text behind the text the key holds (APPEND)
RedisSetex_append(st, t, key, seconds, data) ==
    [k \in DOMAIN Live(st, t) \cup {key} |->
        IF k = key
        THEN [data |-> (IF key \in DOMAIN Live(st, t) THEN st[key].data ELSE "") \o data,
              exp |-> t + seconds]
        ELSE st[k]]

RedisSetex(st, t, key, seconds, data) ==
    [k \in DOMAIN Live(st, t) \cup {key} |->
        IF k = key THEN [data |-> data, exp |-> t + seconds] ELSE st[k]]

RedisGet(st, t, key) ==
    IF key \in DOMAIN Live(st, t) THEN <<st[key].data>> ELSE <<>>

RedisKeys(st, t, pattern) == {k \in DOMAIN Live(st, t) : GlobMatch(pattern, k)}

RedisDelete(st, t, keys) ==
    [store |-> [k \in DOMAIN Live(st, t) \ keys |-> st[k]],
     ret |-> Cardinality(keys \cap DOMAIN Live(st, t))]

(***************************************************************************)
(* The cache entries and the sorted set geo:points are keys of one Redis    *)
(* database.  The methods of the cache run on the whole keyspace, in which  *)
(* the sorted set is the entry [zset, exp] under geo:points while it has    *)
(* members; DEL, SETEX and KEYS treat it as any other key.                  *)
(***************************************************************************)
Keyspace(st, idx) ==
    IF idx = {} THEN st
    ELSE [k \in DOMAIN st \cup {GeoPoints} |->
            IF k = GeoPoints THEN [zset |-> idx, exp |-> -1] ELSE st[k]]

HoldsSortedSet(ks, t, key) == key \in DOMAIN Live(ks, t) /\ "zset" \in DOMAIN ks[key]

\* the string entries of a keyspace
Strings(ks) == [k \in {j \in DOMAIN ks : "data" \in DOMAIN ks[j]} |-> ks[k]]

\* the members of the sorted set geo:points of a keyspace
SortedSet(ks) ==
    IF GeoPoints \in DOMAIN ks /\ "zset" \in DOMAIN ks[GeoPoints]
    THEN ks[GeoPoints].zset ELSE {}

(***************************************************************************)
(* GeoCache.  Each method is an operator from the database st, the clock t  *)
(* and the server's reachability isUp to the database it leaves, the value  *)
(* it returns and whether an exception left it.  A ttl argument is <<>>     *)
(* for None, <<n>> for the integer n and <<n, d>> for the float n.d .       *)
(***************************************************************************)
Out(st, ret) == [store |-> st, ret |-> ret, raised |-> FALSE]

\* an exception leaves the method: nothing is returned (none stands in)
Raised(st, none) == [store |-> st, ret |-> none, raised |-> TRUE]

\* an expiration that is the default whatever ttl is passed
Expiration_default(ttl) == DefaultTTL

\* expiration = ttl if ttl is not None else self.ttl (of a float, the whole
\* part: SETEX takes whole seconds only)
Expiration(ttl) == IF ttl # <<>> THEN ttl[1] ELSE DefaultTTL

\* the expiration is a whole number of seconds
Whole(ttl) == Len(ttl) <= 1

\* set with the expiration dropped (SET in place of SETEX)
set_noexpire(st, t, isUp, key, data, ttl) ==
    IF ~Serializable(data) \/ ~isUp \/ Expiration(ttl) <= 0 THEN Out(st, FALSE)
    ELSE Out([k \in DOMAIN Live(st, t) \cup {key} |->
                IF k = key THEN [data |-> Dumps(data, FALSE), exp |-> -1] ELSE st[k]], TRUE)

\* set that keeps the expiration of the entry it overwrites (SET ... KEEPTTL)
set_keepttl(st, t, isUp, key, data, ttl) ==
    IF ~Serializable(data) \/ ~isUp \/ Expiration(ttl) <= 0 THEN Out(st, FALSE)
    ELSE Out([k \in DOMAIN Live(st, t) \cup {key} |->
                IF k = key
                THEN [data |-> Dumps(data, FALSE),
                      exp |-> IF key \in DOMAIN Live(st, t) THEN st[key].exp
                              ELSE t + Expiration(ttl)]
                ELSE st[k]], TRUE)

\* set that leaves an entry that is already there (SET ... NX)
set_nx(st, t, isUp, key, data, ttl) ==
    IF ~Serializable(data) \/ ~isUp \/ Expiration(ttl) <= 0 THEN Out(st, FALSE)
    ELSE IF key \in DOMAIN Live(st, t) THEN Out(st, TRUE)
    ELSE Out(RedisSetex(st, t, key, Expiration(ttl), Dumps(data, FALSE)), TRUE)

\* set whose except branch raises again when the server is away
set_raises(st, t, isUp, key, data, ttl) ==
    IF ~Serializable(data) THEN Out(st, FALSE)
    ELSE IF ~isUp THEN Raised(st, FALSE)
    ELSE IF ~Whole(ttl) \/ Expiration(ttl) <= 0 THEN Out(st, FALSE)
    ELSE Out(RedisSetex(st, t, key, Expiration(ttl), Dumps(data, FALSE)), TRUE)

\* set that takes a ttl of 0 for no ttl (ttl or self.ttl)
set_ttl_or_default(st, t, isUp, key, data, ttl) ==
    IF ~Serializable(data) \/ ~isUp \/ ~Whole(ttl) THEN Out(st, FALSE)
    ELSE IF ttl = <<0>>
    THEN Out(RedisSetex(st, t, key, DefaultTTL, Dumps(data, FALSE)), TRUE)
    ELSE IF Expiration(ttl) <= 0 THEN Out(st, FALSE)
    ELSE Out(RedisSetex(st, t, key, Expiration(ttl), Dumps(data, FALSE)), TRUE)

\* set that writes with SET and sets the expiration with EXPIRE afterwards:
\* when the expiration is refused the value has been written
set_then_expire(st, t, isUp, key, data, ttl) ==
    IF ~Serializable(data) \/ ~isUp THEN Out(st, FALSE)
    ELSE IF ~Whole(ttl) \/ Expiration(ttl) <= 0
    THEN Out([k \in DOMAIN Live(st, t) \cup {key} |->
                IF k = key THEN [data |-> Dumps(data, FALSE), exp |-> -1] ELSE st[k]], FALSE)
    ELSE Out(RedisSetex(st, t, key, Expiration(ttl), Dumps(data, FALSE)), TRUE)

set(st, t, isUp, key, data, ttl) ==
    IF ~Serializable(data) THEN Out(st, FALSE)      \* json.dumps raises TypeError
    ELSE IF ~isUp THEN Out(st, FALSE)               \* ConnectionError
    ELSE IF ~Whole(ttl) THEN Out(st, FALSE)         \* ResponseError: value is not an integer
    ELSE IF Expiration(ttl) <= 0 THEN Out(st, FALSE) \* ResponseError: invalid expire time
    ELSE Out(RedisSetex(st, t, key, Expiration(ttl), Dumps(data, FALSE)), TRUE)

\* get that renews the expiration of the entry it reads (GETEX)
get_touch(st, t, isUp, key) ==
    IF ~isUp THEN Out(st, PyNone)
    ELSE IF HoldsSortedSet(st, t, key) THEN Out(st, PyNone)
    ELSE LET data == RedisGet(st, t, key)
         IN IF data # <<>> /\ data[1] # "" /\ Loadable(data[1])
            THEN Out([st EXCEPT ![key].exp = t + DefaultTTL], Loads(data[1]))
            ELSE Out(st, PyNone)

\* get that deletes an entry it cannot decode
get_evict(st, t, isUp, key) ==
    IF ~isUp THEN Out(st, PyNone)
    ELSE IF HoldsSortedSet(st, t, key) THEN Out(RedisDelete(st, t, {key}).store, PyNone)
    ELSE LET data == RedisGet(st, t, key)
         IN IF data # <<>> /\ data[1] # ""
            THEN IF Loadable(data[1]) THEN Out(st, Loads(data[1]))
                 ELSE Out(RedisDelete(st, t, {key}).store, PyNone)
            ELSE Out(st, PyNone)

get(st, t, isUp, key) ==
    IF ~isUp THEN Out(st, PyNone)
    ELSE IF HoldsSortedSet(st, t, key) THEN Out(st, PyNone)   \* ResponseError: WRONGTYPE
    ELSE LET data == RedisGet(st, t, key)
         IN IF data # <<>> /\ data[1] # ""
            THEN IF Loadable(data[1]) THEN Out(st, Loads(data[1]))
                 ELSE Out(st, PyNone)               \* json.loads raises
            ELSE Out(st, PyNone)

\* delete whose except branch reports success
delete_true(st, t, isUp, key) ==
    IF ~isUp THEN Out(st, TRUE)
    ELSE Out(RedisDelete(st, t, {key}).store, RedisDelete(st, t, {key}).ret # 0)

\* delete that reports success whatever DEL replied
delete_reports_true(st, t, isUp, key) ==
    IF ~isUp THEN Out(st, FALSE)
    ELSE Out(RedisDelete(st, t, {key}).store, TRUE)

delete(st, t, isUp, key) ==
    IF ~isUp THEN Out(st, FALSE)
    ELSE LET r == RedisDelete(st, t, {key})
         IN Out(r.store, r.ret # 0)

\* invalidate_by_prefix that deletes only the first key KEYS returned
invalidate_by_prefix_first(st, t, isUp, prefix) ==
    IF ~isUp THEN Out(st, 0)
    ELSE LET keys == RedisKeys(st, t, Geo \o Colon \o prefix \o Colon \o <<"*">>)
         IN IF keys = {} THEN Out(st, 0)
            ELSE LET r == RedisDelete(st, t, {CHOOSE k \in keys : TRUE})
                 IN Out(r.store, r.ret)

invalidate_by_prefix(st, t, isUp, prefix) ==
    IF ~isUp THEN Out(st, 0)
    ELSE LET pattern == Geo \o Colon \o prefix \o Colon \o <<"*">>
             keys == RedisKeys(st, t, pattern)
         IN IF keys = {} THEN Out(st, 0)
            ELSE LET r == RedisDelete(st, t, keys)
                 IN Out(r.store, r.ret)

Boundary == <<"b", "o", "u", "n", "d", "a", "r", "y">>

Demographics == <<"d", "e", "m", "o", "g", "r", "a", "p", "h", "i", "c", "s">>

\* key = f"geo:boundary:{location_id}"
boundary_key(location_id) == Geo \o Colon \o Boundary \o Colon \o location_id

\* key = f"geo:demographics:{location_id}:{category}" if category, else
\* f"geo:demographics:{location_id}"
demographic_key(location_id, category) ==
    IF category # <<>> /\ category[1] # <<>>
    THEN Geo \o Colon \o Demographics \o Colon \o location_id \o Colon \o category[1]
    ELSE Geo \o Colon \o Demographics \o Colon \o location_id

\* store_location_boundaries that writes its entry without an expiration
store_location_boundaries_persist(st, t, isUp, location_id, boundary_data) ==
    set_noexpire(st, t, isUp, boundary_key(location_id), boundary_data, <<>>)

store_location_boundaries(st, t, isUp, location_id, boundary_data) ==
    set(st, t, isUp, boundary_key(location_id), boundary_data, <<>>)

get_location_boundaries(st, t, isUp, location_id) ==
    get(st, t, isUp, boundary_key(location_id))

store_demographic_data(st, t, isUp, location_id, data, category) ==
    set(st, t, isUp, demographic_key(location_id, category), data, <<>>)

get_demographic_data(st, t, isUp, location_id, category) ==
    get(st, t, isUp, demographic_key(location_id, category))

\* invalidate_by_prefix up to its KEYS command: the keys to delete, or the
\* return value when the method ends there
invalidate_by_prefix_keys(st, t, isUp, prefix) ==
    IF ~isUp THEN [done |-> TRUE, ret |-> 0, keys |-> {}]
    ELSE LET pattern == Geo \o Colon \o prefix \o Colon \o <<"*">>
             keys == RedisKeys(st, t, pattern)
         IN IF keys = {} THEN [done |-> TRUE, ret |-> 0, keys |-> {}]
            ELSE [done |-> FALSE, ret |-> 0, keys |-> keys]

\* invalidate_by_prefix from its DEL command on
invalidate_by_prefix_delete(st, t, isUp, keys) ==
    IF ~isUp THEN Out(st, 0)
    ELSE LET r == RedisDelete(st, t, keys)
         IN Out(r.store, r.ret)

\* health_check that reports the server as reachable whatever PING did
health_check_true(st, t, isUp) == Out(st, TRUE)

health_check(st, t, isUp) == Out(st, isUp)

\* hashlib.md5(text).hexdigest(): one symbol per text, taken as injective
Md5Hex(text) == <<"#" \o text>>

\* generate_key that leaves the prefix out of the key
generate_key_noprefix(prefix, params) ==
    Geo \o Colon \o Md5Hex(Dumps(params, TRUE))

generate_key(prefix, params) ==
    LET param_str == Dumps(params, TRUE)
        param_hash == Md5Hex(param_str)
    IN Geo \o Colon \o prefix \o Colon \o param_hash

\* generate_key calls json.dumps outside any try
generate_key_raises(params) == ~Serializable(params)

\* cache_query_result whose key derivation sits inside a try that returns False
cache_query_result_swallow(st, t, isUp, query_type, params, result, ttl) ==
    IF generate_key_raises(params) THEN Out(st, FALSE)
    ELSE set(st, t, isUp, generate_key(query_type, params), result, ttl)

cache_query_result(st, t, isUp, query_type, params, result, ttl) ==
    IF generate_key_raises(params) THEN Raised(st, FALSE)
    ELSE set(st, t, isUp, generate_key(query_type, params), result, ttl)

get_cached_query_result(st, t, isUp, query_type, params) ==
    IF generate_key_raises(params) THEN Raised(st, PyNone)
    ELSE get(st, t, isUp, generate_key(query_type, params))

(***************************************************************************)
(* History kept for the properties: what each key was last asked to hold,   *)
(* and the last call.                                                       *)
(***************************************************************************)
NoMeta == [set |-> FALSE, val |-> PyNone, due |-> 0, gone |-> "never"]
Gone(why) == [set |-> FALSE, val |-> PyNone, due |-> 0, gone |-> why]

NoCall == [op |-> "none", key |-> <<>>, ttl |-> <<>>,
           ret |-> FALSE, raised |-> FALSE, prev |-> <<>>]

Call(op, key, ttl, out, prev) ==
    [op |-> op, key |-> key, ttl |-> ttl,
     ret |-> out.ret, raised |-> out.raised, prev |-> prev]

\* entries that left the database lose their history
Forget(m, st) ==
    [k \in DOMAIN m |-> IF m[k].set /\ k \notin DOMAIN st THEN NoMeta ELSE m[k]]

(***************************************************************************)
(* Calls of the GeoCache methods by any caller, the clock, and the server   *)
(* going away and coming back.                                              *)
(***************************************************************************)
TTLs == {<<>>} \cup {<<n>> : n \in 0..MaxTTL}

\* the same with a negative ttl and the float 1.5
AnyTTLs == TTLs \cup {<<-1>>, <<1, 5>>}

HandlerVars == <<pc, req, res, probe, computes, scanned>>
KeyVars == <<kin, kout>>
GeoVars == <<client, index, placed, geo>>

\* no geospatial method is called
GeoIdle == client = "" /\ index = {} /\ placed = <<>> /\ geo = <<>>

Set(key, data, ttl) ==
    LET out == set(Keyspace(store, index), now, up, key, data, ttl)
        old == Live(store, now)
    IN /\ store' = Strings(out.store)
       /\ index' = SortedSet(out.store)
       /\ meta' = IF out.ret
                  THEN [Forget(meta, out.store) EXCEPT ![key] =
                          [set |-> TRUE, val |-> data, gone |-> "never",
                           due |-> now + (IF ttl = <<>> THEN DefaultTTL ELSE ttl[1])]]
                  ELSE meta
       /\ last' = Call("set", key, ttl, out,
                       IF key \in DOMAIN old
                       THEN <<[exp |-> old[key].exp,
                               same |-> Serializable(data)
                                           /\ old[key].data = Dumps(data, FALSE)]>>
                       ELSE <<>>)
       /\ UNCHANGED <<now, up, HandlerVars, KeyVars, client, placed, geo>>

Get(key) ==
    LET out == get(Keyspace(store, index), now, up, key)
    IN /\ store' = Strings(out.store)
       /\ index' = SortedSet(out.store)
       /\ last' = Call("get", key, <<>>, out, <<>>)
       /\ UNCHANGED <<now, up, meta, HandlerVars, KeyVars, client, placed, geo>>

Delete(key) ==
    LET out == delete(Keyspace(store, index), now, up, key)
    IN /\ store' = Strings(out.store)
       /\ index' = SortedSet(out.store)
       /\ meta' = Forget(meta, out.store)
       /\ last' = Call("delete", key, <<>>, out, <<>>)
       /\ UNCHANGED <<now, up, HandlerVars, KeyVars, client, placed, geo>>

InvalidateByPrefix(prefix) ==
    LET out == invalidate_by_prefix(Keyspace(store, index), now, up, prefix)
    IN /\ store' = Strings(out.store)
       /\ index' = SortedSet(out.store)
       /\ meta' = Forget(meta, out.store)
       /\ last' = Call("invalidate", prefix, <<>>, out, <<>>)
       /\ UNCHANGED <<now, up, HandlerVars, KeyVars, client, placed, geo>>

HealthCheck ==
    LET out == health_check(Keyspace(store, index), now, up)
    IN /\ store' = Strings(out.store)
       /\ index' = SortedSet(out.store)
       /\ last' = Call("health", <<>>, <<>>, out, <<>>)
       /\ UNCHANGED <<now, up, meta, HandlerVars, KeyVars, client, placed, geo>>

\* a second passes; the server drops the keys that expire
Tick ==
    /\ now < MaxTime
    /\ now' = now + 1
    /\ store' = Live(store, now + 1)
    /\ meta' = [k \in DOMAIN meta |->
                  IF meta[k].set /\ meta[k].due <= now + 1 THEN Gone("expired") ELSE meta[k]]
    /\ last' = NoCall
    /\ UNCHANGED <<up, HandlerVars, KeyVars, GeoVars>>

BackendDown ==
    /\ up
    /\ up' = FALSE
    /\ last' = NoCall
    /\ UNCHANGED <<now, store, meta, HandlerVars, KeyVars, GeoVars>>

BackendUp ==
    /\ ~up
    /\ up' = TRUE
    /\ last' = NoCall
    /\ UNCHANGED <<now, store, meta, HandlerVars, KeyVars, GeoVars>>

StoreInit ==
    /\ now = 0
    /\ up = TRUE
    /\ store = <<>>
    /\ meta = [k \in StoreKeys |-> NoMeta]
    /\ last = NoCall
    /\ pc = <<>> /\ req = <<>> /\ res = <<>> /\ probe = <<>> /\ computes = <<>>
    /\ scanned = <<>>
    /\ kin = <<>> /\ kout = <<>>
    /\ GeoIdle

\* single entries: any value and any ttl under a few keys
StoreNext ==
    \/ \E k \in EntryKeys, d \in DataUniverse, ttl \in TTLs : Set(k, d, ttl)
    \/ \E k \in EntryKeys : Get(k)
    \/ \E k \in EntryKeys : Delete(k)
    \/ Tick
    \/ BackendDown
    \/ BackendUp

StoreSpec == StoreInit /\ [][StoreNext]_vars

\* all five operations, over keys of two namespaces
PrefixNext ==
    \/ \E k \in PrefixKeys, d \in {Row}, ttl \in {<<>>, <<1>>} : Set(k, d, ttl)
    \/ \E k \in PrefixKeys : Get(k)
    \/ \E k \in PrefixKeys : Delete(k)
    \/ \E p \in Prefixes : InvalidateByPrefix(p)
    \/ HealthCheck
    \/ Tick
    \/ BackendDown
    \/ BackendUp

PrefixSpec == StoreInit /\ [][PrefixNext]_vars

(***************************************************************************)
(* Properties of the store.                                                 *)
(***************************************************************************)

\* C3: a get never returns a value whose expiration has passed: whenever
\* get(k) returns a value, k was set and the ttl of its last set has not
\* yet elapsed; once it has elapsed, get(k) reports absent.
C3_ExpiryIsAbsence ==
    (last.op = "get" /\ last.ret # PyNone)
        => (meta[last.key].set /\ now < meta[last.key].due)

\* a get on a key whose ttl has elapsed, reporting absent
C3_Witness ==
    /\ last.op = "get" /\ up
    /\ meta[last.key].gone = "expired"
    /\ last.ret = PyNone

\* C4 as stated: after a successful set(k, v, ttl), a get(k) before expiry
\* and before any other write to k returns v, and what it returns differs
\* from the absent outcome (None).
C4_RoundTrip ==
    (last.op = "get" /\ up /\ meta[last.key].set)
        => (last.ret = meta[last.key].val /\ last.ret # PyNone)

\* C5: after a successful set(k, v2, t2) the database holds under k the
\* value v2 with the expiration now + t2 (the default when t2 is omitted),
\* whatever entry was under k before.
C5_SetOverwrites ==
    (last.op = "set" /\ last.ret)
        => /\ last.key \in DOMAIN store
           /\ Loads(store[last.key].data) = meta[last.key].val
           /\ store[last.key].exp =
                 now + (IF last.ttl = <<>> THEN DefaultTTL ELSE last.ttl[1])

\* a set that replaced an entry of another value and a later expiration
C5_Witness ==
    /\ last.op = "set" /\ last.ret
    /\ last.prev # <<>>
    /\ ~last.prev[1].same
    /\ last.prev[1].exp > store[last.key].exp

\* the keys a step removed from the database
Removed == DOMAIN Live(store, now) \ DOMAIN store'

NoClass(p) == \A i \in 1..Len(p) : p[i] \notin {"[", "\\"}

C7_OthersUnchanged ==
    [][(last'.op = "invalidate")
          => \A k \in DOMAIN Live(store, now) :
                (/\ ~StartsWith(k, last'.key)
                 /\ ~StartsWith(k, Geo \o Colon \o last'.key \o Colon))
                    => (k \in DOMAIN store' /\ store'[k] = store[k])]_vars

\* C8: while the server is unreachable, get returns absent, set and delete
\* return false, invalidate_by_prefix returns 0, health_check returns
\* false, and no exception leaves any of them.
C8_Degradation ==
    (~up /\ last.op # "none")
        => /\ ~last.raised
           /\ last.op = "get" => last.ret = PyNone
           /\ last.op \in {"set", "delete", "health"} => last.ret = FALSE
           /\ last.op = "invalidate" => last.ret = 0

\* a get on a key that has an entry, with the server unreachable
C8_Witness ==
    /\ ~up /\ last.op = "get"
    /\ last.key \in DOMAIN store
    /\ last.ret = PyNone

\* C18: with the server reachable, delete returns True exactly when a live
\* entry was under the key when it was called and False when none was; after
\* it the key is absent and get of it returns None; and the entries under
\* every other key are as they were.
C18_Delete ==
    [][(last'.op = "delete" /\ up)
          => LET k == last'.key
             IN /\ last'.ret = (k \in DOMAIN Live(store, now))
                /\ ~last'.raised
                /\ k \notin DOMAIN store'
                /\ get(store', now, up, k).ret = PyNone
                /\ DOMAIN store' = DOMAIN Live(store, now) \ {k}
                /\ \A j \in DOMAIN store' : store'[j] = store[j]]_vars

\* a delete has removed an entry and returned True, and the entry under the
\* other key is still there
C18_Witness ==
    /\ up /\ last.op = "delete" /\ last.ret
    /\ last.key \notin DOMAIN store
    /\ store # <<>>

(***************************************************************************)
(* The cache-aside endpoints: find_nearby_locations (a derived key, a list  *)
(* result) and get_location (a hand-built key, a 404 when the row is        *)
(* missing).  A handler probes the cache, runs its query, stores the result.*)
(***************************************************************************)
Handlers == {1, 2}

Location == <<"l", "o", "c", "a", "t", "i", "o", "n">>

NearbyParams == PyDict(<< <<"types", PyNone>>, <<"limit", PyInt(1)>> >>)

NoReq == [ep |-> "none", params |-> PyNone, id |-> <<>>]

Requests ==
    { [ep |-> "nearby", params |-> NearbyParams, id |-> <<>>],
      [ep |-> "location", params |-> PyNone, id |-> <<"1">>] }

\* what the database answers: the rows of a nearby query, the row of a location
DbAnswers(r) ==
    IF r.ep = "nearby" THEN {PyList(<<>>), PyList(<<Row>>)} ELSE {PyNone, Row}

\* the key the endpoint caches its result under
endpoint_key(r) ==
    IF r.ep = "nearby" THEN generate_key(Nearby, r.params)
    ELSE Location \o Colon \o r.id

\* cached_result = cache.get...(...)
endpoint_probe(st, t, isUp, r) ==
    IF r.ep = "nearby" THEN get_cached_query_result(st, t, isUp, Nearby, r.params)
    ELSE get(st, t, isUp, Location \o Colon \o r.id)

\* if cached_result: return cached_result
endpoint_hit(cached) == Truthy(cached)

\* get_location: if not result: raise HTTPException(status_code=404)
endpoint_raises(r, answer) == r.ep = "location" /\ ~Truthy(answer)

\* an endpoint that caches the missing row before it raises
endpoint_on_error_cached(st, t, isUp, r) ==
    set(st, t, isUp, Location \o Colon \o r.id, PyNone, <<>>).store

\* what a request whose query raised leaves in the cache: nothing is written
endpoint_on_error(st, t, isUp, r) == st

\* an endpoint that caches the result of a nearby query under the key of
\* another query type than the one it probed
endpoint_store_within(st, t, isUp, r, result) ==
    IF r.ep = "nearby" THEN cache_query_result(st, t, isUp, Within, r.params, result, <<>>)
    ELSE set(st, t, isUp, Location \o Colon \o r.id, result, <<>>)

\* cache the result
endpoint_store(st, t, isUp, r, result) ==
    IF r.ep = "nearby" THEN cache_query_result(st, t, isUp, Nearby, r.params, result, <<>>)
    ELSE set(st, t, isUp, Location \o Colon \o r.id, result, <<>>)

NoRes == [kind |-> "none", val |-> PyNone]
NoProbe == [present |-> FALSE, hit |-> FALSE, wrote |-> FALSE, stale |-> FALSE]

\* a request arrives: the handler probes the cache and returns on a hit
Request(h, r) ==
    LET out == endpoint_probe(store, now, up, r)
        hit == ~out.raised /\ endpoint_hit(out.ret)
    IN /\ pc[h] = "idle"
       /\ store' = out.store
       /\ req' = [req EXCEPT ![h] = r]
       /\ probe' = [probe EXCEPT ![h] =
                      [present |-> up /\ endpoint_key(r) \in DOMAIN Live(store, now),
                       hit |-> hit, wrote |-> FALSE, stale |-> FALSE]]
       /\ computes' = [computes EXCEPT ![h] = 0]
       /\ res' = [res EXCEPT ![h] =
                    IF out.raised THEN [kind |-> "raised", val |-> PyNone]
                    ELSE IF hit THEN [kind |-> "returned", val |-> out.ret]
                    ELSE NoRes]
       /\ pc' = [pc EXCEPT ![h] = IF hit \/ out.raised THEN "idle" ELSE "query"]
       /\ UNCHANGED <<now, up, meta, last, scanned, KeyVars, GeoVars>>

\* the query runs against the database; a missing location raises
Query(h, answer) ==
    /\ pc[h] = "query"
    /\ answer \in DbAnswers(req[h])
    /\ computes' = [computes EXCEPT ![h] = @ + 1]
    /\ IF endpoint_raises(req[h], answer)
       THEN /\ store' = endpoint_on_error(store, now, up, req[h])
            /\ res' = [res EXCEPT ![h] = [kind |-> "raised", val |-> PyNone]]
            /\ pc' = [pc EXCEPT ![h] = "idle"]
       ELSE /\ store' = store
            /\ res' = [res EXCEPT ![h] = [kind |-> "computed", val |-> answer]]
            /\ pc' = [pc EXCEPT ![h] = "store"]
    /\ UNCHANGED <<now, up, meta, last, req, probe, scanned, KeyVars, GeoVars>>

\* the result is cached and returned
Store(h) ==
    LET out == endpoint_store(store, now, up, req[h], res[h].val)
    IN /\ pc[h] = "store"
       /\ store' = out.store
       /\ probe' = [probe EXCEPT ![h].wrote = TRUE]
       /\ res' = [res EXCEPT ![h] =
                    IF out.raised THEN [kind |-> "raised", val |-> PyNone]
                    ELSE [kind |-> "returned", val |-> res[h].val]]
       /\ pc' = [pc EXCEPT ![h] = "idle"]
       /\ UNCHANGED <<now, up, meta, last, req, computes, scanned, KeyVars, GeoVars>>

HandlerInit ==
    /\ now = 0
    /\ up = TRUE
    /\ store = <<>>
    /\ meta = [k \in StoreKeys |-> NoMeta]
    /\ last = NoCall
    /\ pc = [h \in Handlers |-> "idle"]
    /\ req = [h \in Handlers |-> NoReq]
    /\ res = [h \in Handlers |-> NoRes]
    /\ probe = [h \in Handlers |-> NoProbe]
    /\ computes = [h \in Handlers |-> 0]
    /\ scanned = <<>>
    /\ kin = <<>> /\ kout = <<>>
    /\ GeoIdle

HandlerNext ==
    \/ \E h \in Handlers, r \in Requests : Request(h, r)
    \/ \E h \in Handlers, a \in DataUniverse : Query(h, a)
    \/ \E h \in Handlers : Store(h)
    \/ Tick
    \/ BackendDown
    \/ BackendUp

HandlerSpec == HandlerInit /\ [][HandlerNext]_vars

\* C1 as stated: once a request that missed has stored its result, a later
\* request with the same parameters, before expiry and with nothing removed
\* in between, returns from the cache without running the query, whatever
\* value the query had returned.
C1_ResolveHit ==
    \A h \in Handlers : probe[h].present => (probe[h].hit /\ computes[h] = 0)

\* C2: when the query of a request raises, the error reaches the caller and
\* the request has written nothing to the cache: its probe and the step in
\* which it raises both leave the stored entries as they were.
C2_FailureNotCached ==
    [][\A h \in Handlers :
          /\ (pc[h] = "idle" /\ pc'[h] = "query") => store' = store
          /\ (pc[h] = "query" /\ res'[h].kind = "raised")
                => /\ store' = store
                   /\ ~probe'[h].wrote
                   /\ pc'[h] = "idle"]_vars

\* a request for a location that does not exist has raised, with the entry
\* of another request in the cache
C2_Witness ==
    \E h \in Handlers :
        /\ res[h].kind = "raised" /\ req[h].ep = "location"
        /\ computes[h] = 1
        /\ store # <<>>
        /\ Location \o Colon \o req[h].id \notin DOMAIN store

\* C11: with the server reachable, a request whose probe missed has run its
\* query exactly once when it stores; the step that stores writes the result
\* under the key the request probed, and under no other key, to expire the
\* default ttl from now; the caller is handed the result of the query; and
\* a get of that key then returns that result.
C11_ResolveMiss ==
    [][\A h \in Handlers :
          (pc[h] = "store" /\ pc'[h] = "idle" /\ up)
             => LET key == endpoint_key(req[h])
                    result == res[h].val
                IN /\ ~probe[h].hit
                   /\ computes[h] = 1 /\ computes'[h] = 1
                   /\ res'[h] = [kind |-> "returned", val |-> result]
                   /\ key \in DOMAIN store'
                   /\ store'[key] = [data |-> Dumps(result, FALSE),
                                     exp |-> now + DefaultTTL]
                   /\ get(store', now, up, key).ret = result
                   /\ DOMAIN store' = DOMAIN store \cup {key}
                   /\ \A k \in DOMAIN store \ {key} : store'[k] = store[k]]_vars

\* a nearby request found nothing cached, ran its query once and returned
\* the rows, which are now in the cache under its key and nowhere else
C11_Witness ==
    \E h \in Handlers :
        /\ up /\ pc[h] = "idle" /\ req[h].ep = "nearby"
        /\ ~probe[h].present /\ probe[h].wrote /\ computes[h] = 1
        /\ res[h] = [kind |-> "returned", val |-> PyList(<<Row>>)]
        /\ DOMAIN store = {endpoint_key(req[h])}
        /\ get(store, now, up, endpoint_key(req[h])).ret = res[h].val

\* C12: when two requests with the same parameters both probed before either
\* had stored, so that neither probe found an entry, each has run its own
\* query once and each caller is handed the result of its own query; the
\* one that stores second leaves, with the server reachable, exactly its own
\* result under the key, whole and with a fresh expiration.
C12_ConcurrentMisses ==
    [][\A h \in Handlers : \A g \in Handlers \ {h} :
          (/\ pc[h] = "store" /\ pc'[h] = "idle" /\ up
           /\ req[g] = req[h]
           /\ ~probe[h].present /\ ~probe[g].present
           /\ pc[g] = "idle" /\ probe[g].wrote)
             => LET key == endpoint_key(req[h])
                IN /\ computes'[h] = 1 /\ computes'[g] = 1
                   /\ res'[h] = [kind |-> "returned", val |-> res[h].val]
                   /\ res'[g] = res[g] /\ res[g].kind = "returned"
                   /\ key \in DOMAIN store'
                   /\ store'[key] = [data |-> Dumps(res[h].val, FALSE),
                                     exp |-> now + DefaultTTL]]_vars

\* both requests missed within the same second, their queries returned
\* different rows, both stored, and the entry is the one of the second
C12_Witness ==
    /\ up /\ now = 0
    /\ \A h \in Handlers :
          /\ pc[h] = "idle" /\ req[h].ep = "nearby"
          /\ ~probe[h].present /\ probe[h].wrote /\ computes[h] = 1
    /\ res[1] = [kind |-> "returned", val |-> PyList(<<Row>>)]
    /\ res[2] = [kind |-> "returned", val |-> PyList(<<>>)]
    /\ endpoint_key(req[2]) \in DOMAIN store
    /\ store[endpoint_key(req[2])].data = Dumps(res[2].val, FALSE)

\* C20: while the server is away a request never ends at its probe: the
\* probe counts as a miss and leaves the database alone, the query runs,
\* and the step that stores, though it stores nothing, hands the caller the
\* result of the query and raises nothing.
C20_OutageTransparency ==
    [][\A h \in Handlers :
          ~up => /\ (pc[h] = "idle" /\ pc'[h] = "idle")
                       => (res'[h] = res[h] /\ computes'[h] = computes[h])
                 /\ (pc[h] = "idle" /\ pc'[h] = "query")
                       => (~probe'[h].hit /\ store' = store)
                 /\ (pc[h] = "store" /\ pc'[h] = "idle")
                       => /\ computes[h] = 1
                          /\ res'[h] = [kind |-> "returned", val |-> res[h].val]
                          /\ store' = store]_vars

\* with the server away a request has run its query once and returned the
\* rows, and nothing is in the cache under its key
C20_Witness ==
    \E h \in Handlers :
        /\ ~up /\ now = 0 /\ pc[h] = "idle"
        /\ ~probe[h].present /\ probe[h].wrote /\ computes[h] = 1
        /\ res[h] = [kind |-> "returned", val |-> PyList(<<Row>>)]
        /\ endpoint_key(req[h]) \notin DOMAIN store

(***************************************************************************)
(* Expirations: GeoCache.set called with every kind of ttl, next to an      *)
(* endpoint that stores its result.                                         *)
(***************************************************************************)
TtlInit ==
    /\ now = 0
    /\ up = TRUE
    /\ store = <<>>
    /\ meta = [k \in StoreKeys |-> NoMeta]
    /\ last = NoCall
    /\ pc = [h \in {1} |-> "idle"]
    /\ req = [h \in {1} |-> NoReq]
    /\ res = [h \in {1} |-> NoRes]
    /\ probe = [h \in {1} |-> NoProbe]
    /\ computes = [h \in {1} |-> 0]
    /\ scanned = <<>>
    /\ kin = <<>> /\ kout = <<>>
    /\ GeoIdle

TtlNext ==
    \/ \E ttl \in AnyTTLs : Set(Years, Row, ttl)
    \/ \E r \in {q \in Requests : q.ep = "nearby"} : Request(1, r)
    \/ Query(1, PyList(<<Row>>))
    \/ Store(1)
    \/ Tick
    \/ BackendDown
    \/ BackendUp

TtlSpec == TtlInit /\ [][TtlNext]_vars

\* a ttl that is zero, negative or not a whole number
InvalidTTL(ttl) == ttl # <<>> /\ (~Whole(ttl) \/ ttl[1] <= 0)

C19_DefaultTTL ==
    [][/\ (last'.op = "set" /\ last'.ret)
            => /\ last'.key \in DOMAIN store'
               /\ store'[last'.key].exp =
                    now + (IF last'.ttl = <<>> THEN DefaultTTL ELSE last'.ttl[1])
       /\ \A h \in DOMAIN pc :
            (pc[h] = "store" /\ pc'[h] = "idle" /\ up)
               => /\ endpoint_key(req[h]) \in DOMAIN store'
                  /\ store'[endpoint_key(req[h])].exp = now + DefaultTTL]_vars

\* in the same second an endpoint has stored its result, which expires after
\* the default ttl, and a set with a ttl of 1 has stored an entry that
\* expires after one second
C19_Witness ==
    /\ up /\ last.op = "set" /\ last.ret /\ last.ttl = <<1>>
    /\ Years \in DOMAIN store /\ store[Years].exp = now + 1
    /\ probe[1].wrote /\ endpoint_key(req[1]) \in DOMAIN store
    /\ store[endpoint_key(req[1])].exp = now + DefaultTTL
    /\ DefaultTTL # 1

(***************************************************************************)
(* The two query-result methods called directly, with parameter sets that   *)
(* json can and cannot serialize.  kin is the last call's query type and    *)
(* parameters, kout the key derived for it, if one was.                     *)
(***************************************************************************)
ObjectParams == PyDict(<< <<"types", PyObject>>, <<"limit", PyInt(1)>> >>)
CyclicParams == PyDict(<< <<"polygon", PyList(<<PyCycle>>)>> >>)
LimitParams == PyDict(<< <<"limit", PyInt(1)>> >>)
QueryParams == {NearbyParams, LimitParams, ObjectParams, CyclicParams}

DerivedKey(query_type, params) ==
    IF generate_key_raises(params) THEN <<>>
    ELSE <<generate_key(query_type, params)>>

CacheQueryResult(query_type, params, result, ttl) ==
    LET out == cache_query_result(store, now, up, query_type, params, result, ttl)
    IN /\ store' = out.store
       /\ last' = Call("cache_query", <<>>, ttl, out, <<>>)
       /\ kin' = [n1 |-> query_type, p1 |-> params]
       /\ kout' = DerivedKey(query_type, params)
       /\ UNCHANGED <<now, up, meta, HandlerVars, GeoVars>>

GetCachedQueryResult(query_type, params) ==
    LET out == get_cached_query_result(store, now, up, query_type, params)
    IN /\ store' = out.store
       /\ last' = Call("get_cached", <<>>, <<>>, out, <<>>)
       /\ kin' = [n1 |-> query_type, p1 |-> params]
       /\ kout' = DerivedKey(query_type, params)
       /\ UNCHANGED <<now, up, meta, HandlerVars, GeoVars>>

QueryInit ==
    /\ now = 0
    /\ up = TRUE
    /\ store = <<>>
    /\ meta = [k \in StoreKeys |-> NoMeta]
    /\ last = NoCall
    /\ pc = <<>> /\ req = <<>> /\ res = <<>> /\ probe = <<>> /\ computes = <<>>
    /\ scanned = <<>>
    /\ kin = [n1 |-> Within, p1 |-> NearbyParams] /\ kout = <<>>
    /\ GeoIdle

QueryNext ==
    \/ \E params \in QueryParams, ttl \in {<<>>, <<1>>} :
          CacheQueryResult(Within, params, PyList(<<Row>>), ttl)
    \/ \E params \in QueryParams : GetCachedQueryResult(Within, params)
    \/ Tick
    \/ BackendDown
    \/ BackendUp

QuerySpec == QueryInit /\ [][QueryNext]_vars

\* C17: when the parameters hold a value json cannot serialize, or a list
\* that contains itself, the probe and the store of a query result each
\* raise to the caller instead of returning: no key is derived, and the
\* database is left as it was, whether or not the server is reachable.
C17_InvalidParameters ==
    [][(last'.op \in {"cache_query", "get_cached"} /\ ~Serializable(kin'.p1))
          => (last'.raised /\ kout' = <<>> /\ store' = store)]_vars

\* with an entry in the cache and the server away, a probe with parameters
\* that contain a self-referential list has raised
C17_Witness ==
    /\ last.op = "get_cached" /\ last.raised
    /\ kin.p1 = CyclicParams /\ kout = <<>>
    /\ ~up /\ store # <<>>

(***************************************************************************)
(* Key derivation on its own: generate_key applied to two namespaces and    *)
(* two parameter sets drawn from the mappings of at most two parameters.    *)
(***************************************************************************)
ListXY == PyList(<<PyStr("x"), PyStr("y")>>)
ListYX == PyList(<<PyStr("y"), PyStr("x")>>)
PolygonTC == PyDict(<< <<"t", PyStr("x")>>, <<"c", ListXY>> >>)
PolygonCT == PyDict(<< <<"c", ListXY>>, <<"t", PyStr("x")>> >>)

ParamValues == {PyInt(1), PyStr("1"), PyNone, ListXY, ListYX, PolygonTC, PolygonCT}

ParamNames == {<<"limit", "polygon">>, <<"polygon", "limit">>, <<"types", "limit">>}

ParamUniverse ==
    {PyDict(<<>>)}
    \cup {PyDict(<< <<n[1], v>> >>) : n \in ParamNames, v \in ParamValues}
    \cup {PyDict(<< <<n[1], v>>, <<n[2], w>> >>) :
             n \in ParamNames, v \in ParamValues, w \in ParamValues}

Namespaces == {Nearby, Within}

\* Python's ==, on the values of the model: mappings compare by their items
\* whatever the insertion order, lists in order
RECURSIVE PyEq(_, _)
PyEq(x, y) ==
    /\ x.t = y.t
    /\ CASE x.t = "dict" ->
              /\ {x.v[i][1] : i \in 1..Len(x.v)} = {y.v[j][1] : j \in 1..Len(y.v)}
              /\ \A i \in 1..Len(x.v), j \in 1..Len(y.v) :
                     x.v[i][1] = y.v[j][1] => PyEq(x.v[i][2], y.v[j][2])
         [] x.t = "list" ->
              /\ Len(x.v) = Len(y.v)
              /\ \A i \in 1..Len(x.v) : PyEq(x.v[i], y.v[i])
         [] OTHER -> x.v = y.v

KeyInit ==
    /\ now = 0
    /\ up = TRUE
    /\ store = <<>>
    /\ meta = [k \in StoreKeys |-> NoMeta]
    /\ last = NoCall
    /\ pc = <<>> /\ req = <<>> /\ res = <<>> /\ probe = <<>> /\ computes = <<>>
    /\ scanned = <<>>
    /\ kin \in [n1 : Namespaces, p1 : ParamUniverse, n2 : Namespaces, p2 : ParamUniverse]
    /\ kout = <<>>
    /\ GeoIdle

DeriveKeys ==
    /\ kout = <<>>
    /\ kout' = <<generate_key(kin.n1, kin.p1), generate_key(kin.n2, kin.p2)>>
    /\ UNCHANGED <<now, up, store, meta, last, HandlerVars, kin, GeoVars>>

KeyNext == DeriveKeys

KeySpec == KeyInit /\ [][KeyNext]_vars

\* C9: two parameter sets that are structurally equal, with the mapping
\* keys inserted in any order at any nesting level, derive the same key
\* under the same namespace; a list value reordered derives another key.
C9_KeyStability ==
    (kout # <<>> /\ kin.n1 = kin.n2)
        => /\ PyEq(kin.p1, kin.p2) => kout[1] = kout[2]
           /\ (/\ kin.p1 = PyDict(<< <<"types", ListXY>> >>)
               /\ kin.p2 = PyDict(<< <<"types", ListYX>> >>)) => kout[1] # kout[2]

\* equal parameter sets whose keys were inserted in another order, at the
\* top level and inside the nested mapping, have derived one key
C9_Witness ==
    /\ kout # <<>> /\ kin.n1 = kin.n2
    /\ kin.p1 = PyDict(<< <<"polygon", PolygonTC>>, <<"limit", PyInt(1)>> >>)
    /\ kin.p2 = PyDict(<< <<"limit", PyInt(1)>>, <<"polygon", PolygonCT>> >>)
    /\ kout[1] = kout[2]

\* C10: two parameter sets that differ in a key or a value derive different
\* keys, and so does one parameter set under two different namespaces (the
\* digest taken as injective).
C10_KeyDiscrimination ==
    kout # <<>>
        => /\ (kin.n1 = kin.n2 /\ ~PyEq(kin.p1, kin.p2)) => kout[1] # kout[2]
           /\ (kin.n1 # kin.n2 /\ PyEq(kin.p1, kin.p2)) => kout[1] # kout[2]

\* the number 1 and the string "1" under one parameter have derived
\* different keys
C10_Witness ==
    /\ kout # <<>> /\ kin.n1 = kin.n2
    /\ kin.p1 = PyDict(<< <<"limit", PyInt(1)>> >>)
    /\ kin.p2 = PyDict(<< <<"limit", PyStr("1")>> >>)
    /\ kout[1] # kout[2]

(***************************************************************************)
(* The proximity index: the Redis sorted set geo:points, written by         *)
(* store_geospatial_point and read by find_nearby_points.  Points lie on    *)
(* the equator at whole degrees of longitude, where one degree is 111 km,   *)
(* so distances are whole kilometres.                                       *)
(***************************************************************************)
Names == {"a", "b", "c"}
Lons == 0..MaxLon
Lats == {0}

\* coordinate pairs outside of what GEOADD takes
BadCoords == {<<181, 0>>, <<0, 90>>}
Radii == {111, 230}
Counts == {<<>>, <<2>>}

\* redis-py up to 3.5 declares geoadd(name, *values); from 4.0 on it
\* declares geoadd(name, values, nx=False, xx=False, ch=False)
Clients == {"star", "values"}

\* the orders in which the server may walk the members of the sorted set
Ranks == {r \in [1..Cardinality(Names) -> Names] :
            \A i, j \in DOMAIN r : i # j => r[i] # r[j]}

Abs(n) == IF n < 0 THEN -n ELSE n

\* distance in km between two points of the equator
Dist(lon1, lon2) == 111 * Abs(lon1 - lon2)

\* GEOADD accepts longitudes in -180..180 and latitudes in -85.05..85.05
ValidCoord(lon, lat) == lon \in -180..180 /\ lat \in -85..85

\* GEOADD key lon lat member: the member's position is set, whether it is
\* new or not; the reply counts the members that are new
RedisGeoadd(idx, name, lon, lat) ==
    [index |-> {p \in idx : p.name # name}
                  \cup {[name |-> name, lon |-> lon, lat |-> lat]},
     ret |-> IF \E p \in idx : p.name = name THEN 0 ELSE 1]

\* GEORADIUS key lon lat radius unit WITHDIST [WITHCOORD] [WITHHASH], with
\* neither COUNT nor ASC or DESC: the members within the radius, each with
\* its distance, in the order rank in which the server walks them
RedisGeoradius(idx, lon, lat, radius, unit, withcoord, withhash, rank) ==
    LET km == IF unit = "km" THEN radius ELSE radius \div 1000
        At(name) == CHOOSE p \in idx : p.name = name
        Near(name) == /\ \E p \in idx : p.name = name
                      /\ Dist(At(name).lon, lon) <= km
        Item(name) ==
            <<name, IF unit = "km" THEN Dist(At(name).lon, lon)
                    ELSE 1000 * Dist(At(name).lon, lon)>>
              \o (IF withhash THEN <<0>> ELSE <<>>)
              \o (IF withcoord THEN << <<At(name).lon, At(name).lat>> >> ELSE <<>>)
        hits == SelectSeq(rank, Near)
    IN [i \in 1..Len(hits) |-> Item(hits[i])]

\* redis-py: georadius(name, longitude, latitude, radius, unit=None,
\* withdist=False, withcoord=False, withhash=False, count=None, sort=None, ...)
\* called with positional arguments args.  Every argument the caller passes
\* beyond the fifth is a non-empty string or a non-zero number, so an option
\* is on iff an argument arrives at its position.
RedisPyGeoradius(idx, args, rank) ==
    LET withcoord == Len(args) >= 7
        withhash == Len(args) >= 8
    IN RedisGeoradius(idx, args[2], args[3], args[4], args[5],
                      withcoord, withhash, rank)

GeoOut(idx, ret) == [index |-> idx, ret |-> ret, raised |-> FALSE]

\* the key geo:points holds a string, so that a sorted-set command on it
\* gets the reply WRONGTYPE
WrongType(st, t) == GeoPoints \in DOMAIN Live(st, t)

\* store_geospatial_point over GEOADD ... NX, which leaves a member that is
\* already there where it is
store_geospatial_point_nx(st, t, idx, isUp, cl, name, longitude, latitude) ==
    IF cl = "values" \/ ~isUp \/ WrongType(st, t) \/ ~ValidCoord(longitude, latitude)
    THEN GeoOut(idx, FALSE)
    ELSE IF \E p \in idx : p.name = name THEN GeoOut(idx, FALSE)
    ELSE GeoOut(RedisGeoadd(idx, name, longitude, latitude).index, TRUE)

\* store_geospatial_point over a server that takes any pair of numbers
store_geospatial_point_anywhere(st, t, idx, isUp, cl, name, longitude, latitude) ==
    IF cl = "values" \/ ~isUp \/ WrongType(st, t) THEN GeoOut(idx, FALSE)
    ELSE GeoOut(RedisGeoadd(idx, name, longitude, latitude).index,
                RedisGeoadd(idx, name, longitude, latitude).ret # 0)

store_geospatial_point(st, t, idx, isUp, cl, name, longitude, latitude) ==
    IF cl = "values" THEN GeoOut(idx, FALSE)    \* DataError or TypeError in redis-py
    ELSE IF ~isUp THEN GeoOut(idx, FALSE)       \* ConnectionError
    ELSE IF WrongType(st, t) THEN GeoOut(idx, FALSE)                  \* ResponseError
    ELSE IF ~ValidCoord(longitude, latitude) THEN GeoOut(idx, FALSE)  \* ResponseError
    ELSE LET result == RedisGeoadd(idx, name, longitude, latitude)
         IN GeoOut(result.index, result.ret # 0)

\* find_nearby_points that passes the radius in metres
find_nearby_points_m(st, t, idx, isUp, longitude, latitude, radius_km, count, rank) ==
    LET args == <<"geo:points", longitude, latitude, radius_km, "m">>
                  \o (IF count # <<>> /\ count[1] # 0 THEN <<"COUNT", count[1]>> ELSE <<>>)
                  \o <<"WITHDIST">>
        results == RedisPyGeoradius(idx, args, rank)
    IN IF ~isUp \/ WrongType(st, t) THEN GeoOut(idx, <<>>)
       ELSE IF \E i \in 1..Len(results) : Len(results[i]) # 2 THEN GeoOut(idx, <<>>)
       ELSE GeoOut(idx, [i \in 1..Len(results) |->
                           [name |-> results[i][1], distance_km |-> results[i][2]]])

\* find_nearby_points without its except branch
find_nearby_points_raises(st, t, idx, isUp, longitude, latitude, radius_km, count, rank) ==
    LET args == <<"geo:points", longitude, latitude, radius_km, "km">>
                  \o (IF count # <<>> /\ count[1] # 0 THEN <<"COUNT", count[1]>> ELSE <<>>)
                  \o <<"WITHDIST">>
        results == RedisPyGeoradius(idx, args, rank)
    IN IF ~isUp \/ WrongType(st, t)
       THEN [index |-> idx, ret |-> <<>>, raised |-> TRUE]
       ELSE IF \E i \in 1..Len(results) : Len(results[i]) # 2
       THEN [index |-> idx, ret |-> <<>>, raised |-> TRUE]
       ELSE GeoOut(idx, [i \in 1..Len(results) |->
                           [name |-> results[i][1], distance_km |-> results[i][2]]])

find_nearby_points(st, t, idx, isUp, longitude, latitude, radius_km, count, rank) ==
    LET args == <<"geo:points", longitude, latitude, radius_km, "km">>
                  \o (IF count # <<>> /\ count[1] # 0 THEN <<"COUNT", count[1]>> ELSE <<>>)
                  \o <<"WITHDIST">>
        results == RedisPyGeoradius(idx, args, rank)
    IN IF ~isUp THEN GeoOut(idx, <<>>)          \* ConnectionError
       ELSE IF WrongType(st, t) THEN GeoOut(idx, <<>>)   \* ResponseError
       \* name, distance = result raises ValueError on a longer item
       ELSE IF \E i \in 1..Len(results) : Len(results[i]) # 2 THEN GeoOut(idx, <<>>)
       ELSE GeoOut(idx, [i \in 1..Len(results) |->
                           [name |-> results[i][1], distance_km |-> results[i][2]]])

NoGeo == [op |-> "none", up |-> TRUE, name |-> "", lon |-> 0, lat |-> 0,
          radius |-> 0, count |-> <<>>, ok |-> FALSE, raised |-> FALSE,
          before |-> <<>>, found |-> <<>>]

StoreGeospatialPoint(name, lon, lat) ==
    LET out == store_geospatial_point(store, now, index, up, client, name, lon, lat)
        accepted == /\ up /\ client = "star" /\ ~WrongType(store, now)
                    /\ ValidCoord(lon, lat)
    IN /\ index' = out.index
       /\ placed' = IF accepted
                    THEN [placed EXCEPT ![name] = <<[lon |-> lon, lat |-> lat]>>]
                    ELSE placed
       /\ geo' = [NoGeo EXCEPT !.op = "store", !.up = up, !.name = name,
                               !.lon = lon, !.lat = lat, !.ok = out.ret,
                               !.raised = out.raised, !.before = placed[name]]
       /\ last' = NoCall
       /\ UNCHANGED <<now, up, store, meta, HandlerVars, KeyVars, client>>

FindNearbyPoints(lon, lat, radius, count, rank) ==
    LET out == find_nearby_points(store, now, index, up, lon, lat, radius, count, rank)
    IN /\ index' = out.index
       /\ geo' = [NoGeo EXCEPT !.op = "find", !.up = up, !.lon = lon, !.lat = lat,
                               !.radius = radius, !.count = count,
                               !.raised = out.raised, !.found = out.ret]
       /\ last' = NoCall
       /\ UNCHANGED <<now, up, store, meta, HandlerVars, KeyVars, client, placed>>

GeoInit ==
    /\ now = 0
    /\ up = TRUE
    /\ store = <<>>
    /\ meta = [k \in StoreKeys |-> NoMeta]
    /\ last = NoCall
    /\ pc = <<>> /\ req = <<>> /\ res = <<>> /\ probe = <<>> /\ computes = <<>>
    /\ scanned = <<>>
    /\ kin = <<>> /\ kout = <<>>
    /\ client \in Clients
    /\ index = {}
    /\ placed = [n \in Names |-> <<>>]
    /\ geo = NoGeo

GeoNext ==
    \/ \E n \in Names, c \in (Lons \X Lats) \cup BadCoords :
          StoreGeospatialPoint(n, c[1], c[2])
    \/ \E lon \in Lons, lat \in Lats, r \in Radii, c \in Counts, rank \in Ranks :
          FindNearbyPoints(lon, lat, r, c, rank)
    \/ BackendDown
    \/ BackendUp

GeoSpec == GeoInit /\ [][GeoNext]_vars

\* the members of idx within radius km of the point at longitude lon
Within_km(idx, lon, radius) == {p \in idx : Dist(p.lon, lon) <= radius}

\* C13 as stated: whatever the index holds and whatever the query, the
\* points find_nearby_points returns are in order of non-decreasing distance
\* from the centre, and a point that lies at the centre is among them with
\* distance 0 (for a query without count that reached the server).
C13_ProximityOrdering ==
    geo.op = "find"
      => /\ \A i, j \in 1..Len(geo.found) :
               i < j => geo.found[i].distance_km <= geo.found[j].distance_km
         /\ (geo.up /\ geo.count = <<>>)
               => \A p \in index :
                     p.lon = geo.lon /\ p.lat = geo.lat
                        => \E i \in 1..Len(geo.found) :
                              geo.found[i] = [name |-> p.name, distance_km |-> 0]

\* C14: a query without count that reached the server returns each point of
\* the index that lies within the radius of the centre, the radius itself
\* included, exactly once and with its distance, and no other point.
C14_RadiusMembership ==
    (geo.op = "find" /\ geo.up /\ geo.count = <<>>)
      => LET near == Within_km(index, geo.lon, geo.radius)
         IN /\ Len(geo.found) = Cardinality(near)
            /\ {geo.found[i] : i \in 1..Len(geo.found)}
                 = {[name |-> p.name, distance_km |-> Dist(p.lon, geo.lon)] : p \in near}

\* three points are indexed; a query returned the two within the radius, one
\* of them exactly on it, and not the third
C14_Witness ==
    /\ geo.op = "find" /\ geo.up /\ geo.count = <<>>
    /\ Cardinality(index) = 3
    /\ Len(geo.found) = 2
    /\ \E i \in 1..Len(geo.found) : geo.found[i].distance_km = geo.radius
    /\ \E p \in index : Dist(p.lon, geo.lon) > geo.radius

\* C15: in every state the index holds at most one position per name, and
\* it is the position of the last insert the server accepted for that name,
\* however the inserts of several callers are ordered.
C15_IndexUniqueness ==
    /\ \A p, q \in index : p.name = q.name => p = q
    /\ \A p \in index : placed[p.name] = <<[lon |-> p.lon, lat |-> p.lat]>>

\* a point that was in the index has been inserted again at another place
C15_Witness ==
    /\ geo.op = "store" /\ geo.up
    /\ geo.before # <<>> /\ geo.before[1].lon # geo.lon
    /\ [name |-> geo.name, lon |-> geo.lon, lat |-> geo.lat] \in index
    /\ Cardinality(index) >= 2

\* the entries of a result, as a set
Found == {geo.found[i] : i \in 1..Len(geo.found)}

\* C22 as stated: a query that reached the server with count n >= 1 returns
\* min(n, m) points when m indexed points lie within the radius, and they
\* are the nearest ones; a query without count returns all m.
C22_Truncation ==
    (geo.op = "find" /\ geo.up)
      => LET near == Within_km(index, geo.lon, geo.radius)
             m == Cardinality(near)
             n == IF geo.count = <<>> THEN m
                  ELSE IF geo.count[1] < m THEN geo.count[1] ELSE m
         IN /\ Len(geo.found) = n
            /\ Cardinality(Found) = n
            /\ \A f \in Found : \E p \in near :
                  f = [name |-> p.name, distance_km |-> Dist(p.lon, geo.lon)]
            /\ \A p \in near :
                  (\A f \in Found : f.name # p.name)
                     => \A f \in Found : f.distance_km <= Dist(p.lon, geo.lon)

\* C23 as stated: an insert with coordinates the server takes, made while
\* the server is reachable, reports success whether the name is new or
\* already indexed, and the index then holds the name at the new position,
\* from which a following query measures it.
C23_InsertSuccess ==
    (geo.op = "store" /\ geo.up /\ ValidCoord(geo.lon, geo.lat))
      => /\ geo.ok
         /\ [name |-> geo.name, lon |-> geo.lon, lat |-> geo.lat] \in index

\* C28: a call made while the server is unreachable raises nothing; an
\* insert returns False and leaves the index as it was, and a query returns
\* the empty list.
C28_ProximityDegradation ==
    /\ ~geo.raised
    /\ (geo.op = "store" /\ ~geo.up)
          => (~geo.ok /\ placed[geo.name] = geo.before)
    /\ (geo.op = "find" /\ ~geo.up) => geo.found = <<>>

\* with the server away, a query without count whose radius covers indexed
\* points has returned the empty list
C28_Witness ==
    /\ geo.op = "find" /\ ~geo.up /\ ~up /\ geo.count = <<>>
    /\ Within_km(index, geo.lon, geo.radius) # {}
    /\ geo.found = <<>> /\ ~geo.raised

Points == <<"p", "o", "i", "n", "t", "s">>

Star == <<"*">>

KeyspaceKeys == {GeoPoints, KeyNearbyA}

KeyspacePrefixes == {Points, Nearby, Star}

KeyspaceInit ==
    /\ now = 0
    /\ up = TRUE
    /\ store = <<>>
    /\ meta = [k \in StoreKeys \cup KeyspaceKeys |-> NoMeta]
    /\ last = NoCall
    /\ pc = <<>> /\ req = <<>> /\ res = <<>> /\ probe = <<>> /\ computes = <<>>
    /\ scanned = <<>>
    /\ kin = <<>> /\ kout = <<>>
    /\ client \in Clients
    /\ index = {}
    /\ placed = [n \in Names |-> <<>>]
    /\ geo = NoGeo

KeyspaceNext ==
    \/ \E k \in KeyspaceKeys, ttl \in {<<>>, <<1>>} : Set(k, Row, ttl)
    \/ \E k \in KeyspaceKeys : Get(k)
    \/ \E k \in KeyspaceKeys : Delete(k)
    \/ \E p \in KeyspacePrefixes : InvalidateByPrefix(p)
    \/ HealthCheck
    \/ \E lon \in 0..1 : StoreGeospatialPoint("a", lon, 0)
    \/ Tick
    \/ BackendDown
    \/ BackendUp

KeyspaceSpec == KeyspaceInit /\ [][KeyspaceNext]_vars

\* C21: a health_check step returns TRUE exactly when the server answers the
\* PING and FALSE when it is unreachable, raises nothing, and leaves every
\* cache entry and every indexed point as it was.
C21_HealthCheck ==
    [][last'.op = "health"
         => /\ last'.ret = up
            /\ ~last'.raised
            /\ store' = store
            /\ index' = index]_vars

\* a health check of an unreachable server, with an entry in the cache and a
\* point in the index
C21_Witness ==
    /\ last.op = "health" /\ ~up /\ last.ret = FALSE
    /\ KeyNearbyA \in DOMAIN Live(store, now)
    /\ index # {}

\* C24 as stated: a point whose insert the server accepted stays in the
\* index at the coordinates of its last accepted insert, whatever set, get,
\* delete and invalidate_by_prefix calls and whatever time follow.
C24_NeverRemoved ==
    \A n \in DOMAIN placed :
        placed[n] # <<>>
           => [name |-> n, lon |-> placed[n][1].lon, lat |-> placed[n][1].lat] \in index


\* C25 as stated: every key the endpoints' cache-aside paths have written
\* has the form geo:<namespace>:<digest> that generate_key produces, and so
\* it is removed by invalidate_by_prefix of its namespace.
C25_KeyLayout ==
    \A k \in DOMAIN Live(store, now) :
        \E ns \in Namespaces :
            /\ StartsWith(k, Geo \o Colon \o ns \o Colon)
            /\ k \notin DOMAIN invalidate_by_prefix(store, now, TRUE, ns).store


(***************************************************************************)
(* Several callers.  set, get and delete issue one Redis command each, and *)
(* the server runs a command at a time; invalidate_by_prefix issues KEYS   *)
(* and then DEL, and the commands of other callers run between the two.    *)
(***************************************************************************)
Callers == {1, 2}

ConcKeys == {KeyNearbyA}

ConcData == {Row, PyList(<<Row>>)}

\* invalidate_by_prefix, the KEYS command
InvalidateScan(c, prefix) ==
    LET r == invalidate_by_prefix_keys(Keyspace(store, index), now, up, prefix)
    IN /\ scanned[c] = <<>>
       /\ IF r.done
          THEN /\ last' = Call("invalidate", prefix, <<>>, Out(store, r.ret), <<>>)
               /\ scanned' = scanned
          ELSE /\ last' = NoCall
               /\ scanned' = [scanned EXCEPT ![c] = <<[prefix |-> prefix, keys |-> r.keys]>>]
       /\ UNCHANGED <<now, up, store, meta, pc, req, res, probe, computes,
                      KeyVars, GeoVars>>

\* invalidate_by_prefix, the DEL command
InvalidateDelete(c) ==
    /\ scanned[c] # <<>>
    /\ LET out == invalidate_by_prefix_delete(Keyspace(store, index), now, up,
                                              scanned[c][1].keys)
       IN /\ store' = Strings(out.store)
          /\ index' = SortedSet(out.store)
          /\ meta' = Forget(meta, out.store)
          /\ last' = Call("invalidate", scanned[c][1].prefix, <<>>, out, <<>>)
    /\ scanned' = [scanned EXCEPT ![c] = <<>>]
    /\ UNCHANGED <<now, up, pc, req, res, probe, computes, KeyVars, client, placed, geo>>

ConcInit ==
    /\ now = 0
    /\ up = TRUE
    /\ store = <<>>
    /\ meta = [k \in StoreKeys |-> NoMeta]
    /\ last = NoCall
    /\ pc = <<>> /\ req = <<>> /\ res = <<>> /\ probe = <<>> /\ computes = <<>>
    /\ scanned = [c \in Callers |-> <<>>]
    /\ kin = <<>> /\ kout = <<>>
    /\ GeoIdle

ConcNext ==
    \/ \E k \in ConcKeys, d \in ConcData, ttl \in {<<>>, <<1>>} : Set(k, d, ttl)
    \/ \E k \in ConcKeys : Get(k)
    \/ \E k \in ConcKeys : Delete(k)
    \/ \E c \in Callers, p \in {Nearby, Within} : InvalidateScan(c, p)
    \/ \E c \in Callers : InvalidateDelete(c)
    \/ Tick
    \/ BackendDown
    \/ BackendUp

ConcSpec == ConcInit /\ [][ConcNext]_vars

\* C26: however the commands of several callers interleave, a get(k) returns
\* None or the whole value of the last set on k, which has neither been
\* removed nor expired since; and every entry of the database is the whole
\* text of the value last set under its key, never a part or a mixture.
C26_WholeValues ==
    /\ last.op = "get"
          => \/ last.ret = PyNone
             \/ /\ meta[last.key].set /\ now < meta[last.key].due
                /\ last.ret = meta[last.key].val
    /\ \A k \in DOMAIN Live(store, now) :
          meta[k].set /\ store[k].data = Dumps(meta[k].val, FALSE)

\* a get returned the value a set wrote over another value while two callers
\* were between the KEYS and the DEL of an invalidation that covers the key
C26_Witness ==
    /\ last.op = "get" /\ last.ret = PyList(<<Row>>)
    /\ \A c \in Callers : scanned[c] # <<>> /\ last.key \in scanned[c][1].keys


(***************************************************************************)
(* Expiry of what the writing methods store: set itself, the boundary and  *)
(* demographics wrappers and cache_query_result.  The clock stops at       *)
(* MaxTime, so a write is taken only while its expiration lies within the  *)
(* clock's range.                                                          *)
(***************************************************************************)
LocationIds == {<<"1">>}

Categories == {<<>>, <<<<"p">>>>}

ExpiryKeys ==
    {Years, generate_key(Nearby, NearbyParams)}
       \cup {boundary_key(i) : i \in LocationIds}
       \cup {demographic_key(i, c) : i \in LocationIds, c \in Categories}

InRange(ttl) == now + Expiration(ttl) <= MaxTime

\* what a write leaves in the history of its key
Written(out, key, data) ==
    IF out.ret
    THEN [Forget(meta, out.store) EXCEPT ![key] =
            [set |-> TRUE, val |-> data, gone |-> "never", due |-> now + DefaultTTL]]
    ELSE meta

StoreLocationBoundaries(location_id, boundary_data) ==
    LET out == store_location_boundaries(Keyspace(store, index), now, up,
                                         location_id, boundary_data)
    IN /\ store' = Strings(out.store)
       /\ index' = SortedSet(out.store)
       /\ meta' = Written(out, boundary_key(location_id), boundary_data)
       /\ last' = Call("store_boundaries", boundary_key(location_id), <<>>, out,
                       <<[id |-> location_id, category |-> <<>>, data |-> boundary_data]>>)
       /\ UNCHANGED <<now, up, HandlerVars, KeyVars, client, placed, geo>>

StoreDemographicData(location_id, data, category) ==
    LET out == store_demographic_data(Keyspace(store, index), now, up,
                                      location_id, data, category)
    IN /\ store' = Strings(out.store)
       /\ index' = SortedSet(out.store)
       /\ meta' = Written(out, demographic_key(location_id, category), data)
       /\ last' = Call("store_demographic", demographic_key(location_id, category),
                       <<>>, out,
                       <<[id |-> location_id, category |-> category, data |-> data]>>)
       /\ UNCHANGED <<now, up, HandlerVars, KeyVars, client, placed, geo>>

ExpiryInit ==
    /\ now = 0
    /\ up = TRUE
    /\ store = <<>>
    /\ meta = [k \in StoreKeys \cup ExpiryKeys |-> NoMeta]
    /\ last = NoCall
    /\ pc = <<>> /\ req = <<>> /\ res = <<>> /\ probe = <<>> /\ computes = <<>>
    /\ scanned = <<>>
    /\ kin = [n1 |-> Nearby, p1 |-> NearbyParams] /\ kout = <<>>
    /\ GeoIdle

ExpiryNext ==
    \/ \E ttl \in {<<>>, <<1>>} : InRange(ttl) /\ Set(Years, Row, ttl)
    \/ \E i \in LocationIds : InRange(<<>>) /\ StoreLocationBoundaries(i, Row)
    \/ \E i \in LocationIds, c \in Categories :
          InRange(<<>>) /\ StoreDemographicData(i, Row, c)
    \/ \E ttl \in {<<>>, <<1>>} :
          InRange(ttl) /\ CacheQueryResult(Nearby, NearbyParams, PyList(<<Row>>), ttl)
    \/ Tick
    \/ BackendDown
    \/ BackendUp

ExpirySpec == ExpiryInit /\ [][ExpiryNext]_vars

\* time passes
ExpiryFairSpec == ExpirySpec /\ WF_vars(Tick)

\* C27: in every state each entry of the database has an expiration, which
\* lies at most the larger of the default ttl and the ttl given ahead; and
\* an entry that expires at e is eventually absent or has been written
\* again with another expiration.
C27_EveryEntryExpires ==
    /\ [](\A k \in DOMAIN store :
             /\ store[k].exp # -1
             /\ store[k].exp > now
             /\ store[k].exp <= now + DefaultTTL)
    /\ \A k \in ExpiryKeys, e \in 1..MaxTime :
          (k \in DOMAIN store /\ store[k].exp = e)
             ~> (k \notin DOMAIN store \/ store[k].exp # e)

\* the entries the two wrappers and cache_query_result wrote have expired
C27_Witness ==
    /\ \A i \in LocationIds :
          /\ meta[boundary_key(i)].gone = "expired"
          /\ meta[demographic_key(i, <<>>)].gone = "expired"
    /\ store = <<>>
    /\ now = MaxTime


(***************************************************************************)
(* Requests of find_nearby_locations next to invalidate_by_prefix calls of *)
(* another caller.                                                         *)
(***************************************************************************)
NearbyRequests == {r \in Requests : r.ep = "nearby"}

\* the pattern of invalidate_by_prefix(prefix) matches the key
Covers(prefix, key) == GlobMatch(Geo \o Colon \o prefix \o Colon \o <<"*">>, key)

\* invalidate_by_prefix, called while requests are being served: a handler
\* that has computed its result and not yet stored it holds, from now on, a
\* result from before the invalidation
InvalidateDuringRequests(prefix) ==
    LET out == invalidate_by_prefix(Keyspace(store, index), now, up, prefix)
    IN /\ store' = Strings(out.store)
       /\ index' = SortedSet(out.store)
       /\ meta' = Forget(meta, out.store)
       /\ last' = Call("invalidate", prefix, <<>>, out, <<>>)
       /\ probe' = [h \in DOMAIN probe |->
                      IF up /\ pc[h] = "store" /\ Covers(prefix, endpoint_key(req[h]))
                      THEN [probe[h] EXCEPT !.stale = TRUE]
                      ELSE probe[h]]
       /\ UNCHANGED <<now, up, pc, req, res, computes, scanned, KeyVars,
                      client, placed, geo>>

RaceNext ==
    \/ \E h \in Handlers, r \in NearbyRequests : Request(h, r)
    \/ \E h \in Handlers, a \in DataUniverse : Query(h, a)
    \/ \E h \in Handlers : Store(h)
    \/ \E p \in {Nearby, Within} : InvalidateDuringRequests(p)
    \/ Tick
    \/ BackendDown
    \/ BackendUp

RaceSpec == HandlerInit /\ [][RaceNext]_vars

\* C30 as stated: a request that missed and computed its result before an
\* invalidation covering its key does not leave that result in the cache
\* once the invalidation has returned: its store step writes nothing.
C30_NoStaleRepopulation ==
    [][\A h \in Handlers :
          (pc[h] = "store" /\ pc'[h] = "idle" /\ probe[h].stale)
             => LET k == endpoint_key(req[h])
                IN k \in DOMAIN store' => (k \in DOMAIN store /\ store'[k] = store[k])]_vars


(***************************************************************************)
(* The endpoints that build their cache key by string formatting:          *)
(* get_locations, get_demographics, compare_locations, get_bounding_box.   *)
(* A request is [ep, id, first, second, list, limit, offset]; an optional  *)
(* parameter is <<>> when omitted and <<value>> when given.  Texts are     *)
(* strings.  kin is a pair of requests, kout the two keys built.           *)
(***************************************************************************)
\* x or default
OrText(x, default) == IF x # <<>> /\ x[1] # "" THEN x[1] ELSE default

\* Python's order of the identifiers of the model (code-point order)
TextOrder == <<"a", "a-b", "all", "b">>

TextRank(text) == CHOOSE i \in 1..Len(TextOrder) : TextOrder[i] = text

RECURSIVE InsertText(_, _)
InsertText(sorted, text) ==
    IF sorted = <<>> THEN <<text>>
    ELSE IF TextRank(text) < TextRank(Head(sorted))
         THEN <<text>> \o sorted
         ELSE <<Head(sorted)>> \o InsertText(Tail(sorted), text)

\* sorted(texts)
RECURSIVE SortedTexts(_)
SortedTexts(texts) ==
    IF texts = <<>> THEN <<>>
    ELSE InsertText(SortedTexts(Tail(texts)), Head(texts))

\* cache_key = f"locations:{type or 'all'}:{limit}:{offset}"
locations_key(type, limit, offset) ==
    "locations:" \o OrText(type, "all") \o ":" \o ToString(limit) \o ":" \o ToString(offset)

\* cache_key = f"demographics:{location_id}:{category or 'all'}:{year or 'all'}"
demographics_key(location_id, category, year) ==
    "demographics:" \o location_id \o ":" \o OrText(category, "all")
        \o ":" \o OrText(year, "all")

\* params_str = f"{category}:{'-'.join(sorted(location_ids))}:{year or 'latest'}"
\* cache_key = f"compare:{params_str}"
compare_key(category, location_ids, year) ==
    "compare:" \o category \o ":" \o Join(SortedTexts(location_ids), "-")
        \o ":" \o OrText(year, "latest")

\* types_str = "-".join(sorted(types)) if types else "all"
\* cache_key = f"bounding_box:{types_str}"
bounding_box_key(types) ==
    "bounding_box:" \o (IF types # <<>> /\ types[1] # <<>>
                        THEN Join(SortedTexts(types[1]), "-") ELSE "all")

\* the key a request is cached under
built_key(r) ==
    CASE r.ep = "locations" -> locations_key(r.first, r.limit, r.offset)
      [] r.ep = "demographics" -> demographics_key(r.id, r.first, r.second)
      [] r.ep = "compare" -> compare_key(r.id, r.list[1], r.second)
      [] r.ep = "bounding_box" -> bounding_box_key(r.list)

\* `if x:` of an optional text: the condition the query is built with
Given(x) == IF x # <<>> /\ x[1] # "" THEN x ELSE <<>>

\* the elements of a list
Elements(list) == {list[i] : i \in 1..Len(list)}

\* the query the request runs: its SQL conditions and their parameters
built_query(r) ==
    CASE r.ep = "locations" -> <<Given(r.first), r.limit, r.offset>>
      [] r.ep = "demographics" -> <<r.id, Given(r.first), Given(r.second)>>
      [] r.ep = "compare" -> <<r.id, Elements(r.list[1]), Given(r.second)>>
      [] r.ep = "bounding_box" ->
            <<IF r.list # <<>> /\ r.list[1] # <<>> THEN <<Elements(r.list[1])>> ELSE <<>> >>

Built(ep, id, first, second, list, limit, offset) ==
    [ep |-> ep, id |-> id, first |-> first, second |-> second, list |-> list,
     limit |-> limit, offset |-> offset]

Ids == {"a", "b", "a-b"}

IdLists == {<<i>> : i \in Ids} \cup {<<i, j>> : i \in Ids, j \in Ids}

BuiltRequests ==
    {Built("locations", "", type, <<>>, <<>>, limit, offset) :
        type \in {<<>>, <<"all">>, <<"city">>}, limit \in {1, 10}, offset \in {0, 1}}
    \cup {Built("demographics", id, category, year, <<>>, 0, 0) :
            id \in {"1", "1:pop"},
            category \in {<<>>, <<"pop">>, <<"all">>, <<"pop:all">>},
            year \in {<<>>, <<"2020">>}}
    \cup {Built("compare", "pop", <<>>, year, <<ids>>, 0, 0) :
            ids \in IdLists, year \in {<<>>, <<"latest">>, <<"2020">>}}
    \cup {Built("bounding_box", "", <<>>, <<>>, types, 0, 0) :
            types \in {<<>>, << <<>> >>, << <<"all">> >>} \cup {<<ids>> : ids \in IdLists}}

BuiltInit ==
    /\ now = 0
    /\ up = TRUE
    /\ store = <<>>
    /\ meta = [k \in StoreKeys |-> NoMeta]
    /\ last = NoCall
    /\ pc = <<>> /\ req = <<>> /\ res = <<>> /\ probe = <<>> /\ computes = <<>>
    /\ scanned = <<>>
    /\ kin \in [r1 : BuiltRequests, r2 : BuiltRequests]
    /\ kout = <<>>
    /\ GeoIdle

BuildKeys ==
    /\ kout = <<>>
    /\ kout' = <<built_key(kin.r1), built_key(kin.r2)>>
    /\ UNCHANGED <<now, up, store, meta, last, HandlerVars, kin, GeoVars>>

BuiltNext == BuildKeys

BuiltSpec == BuiltInit /\ [][BuiltNext]_vars

\* C31 as stated: two requests of the key-building endpoints whose
\* parameters select different queries are cached under different keys.
C31_BuiltKeysInjective ==
    kout # <<>>
       => ((kin.r1.ep # kin.r2.ep \/ built_query(kin.r1) # built_query(kin.r2))
              => kout[1] # kout[2])


(***************************************************************************)
(* Query results of several namespaces next to invalidate_by_prefix: a     *)
(* namespace, one that it is a string prefix of, and one that continues it *)
(* behind a colon.                                                          *)
(***************************************************************************)
Near == <<"n", "e", "a", "r">>

NearBy == Near \o Colon \o <<"b", "y">>          \* "near:by"

QueryTypes == {Near, Nearby, NearBy}

QueryTypeInit ==
    /\ now = 0
    /\ up = TRUE
    /\ store = <<>>
    /\ meta = [k \in StoreKeys |-> NoMeta]
    /\ last = NoCall
    /\ pc = <<>> /\ req = <<>> /\ res = <<>> /\ probe = <<>> /\ computes = <<>>
    /\ scanned = <<>>
    /\ kin = [n1 |-> Near, p1 |-> NearbyParams] /\ kout = <<>>
    /\ GeoIdle

QueryTypeNext ==
    \/ \E n \in QueryTypes, ttl \in {<<>>, <<1>>} :
          CacheQueryResult(n, NearbyParams, Row, ttl)
    \/ \E n \in QueryTypes : InvalidateByPrefix(n)
    \/ Tick
    \/ BackendDown
    \/ BackendUp

QueryTypeSpec == QueryTypeInit /\ [][QueryTypeNext]_vars

\* the entries cache_query_result(query_type, ...) has stored
StoredBy(st, query_type) ==
    {k \in DOMAIN st : k = generate_key(query_type, NearbyParams)}

\* C32 as stated: with the server reachable, invalidate_by_prefix(n1)
\* removes every entry cache_query_result stored for n1 and no entry it
\* stored for another namespace n2.
C32_NamespaceIsolation ==
    [][(last'.op = "invalidate" /\ up)
          => /\ StoredBy(store', last'.key) = {}
             /\ \A n2 \in QueryTypes \ {last'.key} :
                   StoredBy(Live(store, now), n2) \subseteq DOMAIN store']_vars


(***************************************************************************)
(* set called with what it refuses: values json cannot serialize, ttls     *)
(* SETEX rejects, and a server that is away.                                *)
(***************************************************************************)
RefusedData == {PyObject, PyList(<<PyCycle>>)}

RefusalNext ==
    \/ \E d \in {Row, PyList(<<Row>>)} \cup RefusedData, ttl \in AnyTTLs : Set(Years, d, ttl)
    \/ Get(Years)
    \/ Tick
    \/ BackendDown
    \/ BackendUp

RefusalSpec == StoreInit /\ [][RefusalNext]_vars

\* C33: a set that returns False, because the value cannot be serialized,
\* the server refuses the expiration or the server is away, leaves the
\* database as it was: the entry under its key keeps its value and its
\* expiration, and so does every other entry.
C33_FailedSetChangesNothing ==
    [][(last'.op = "set" /\ ~last'.ret) => (store' = store /\ index' = index)]_vars

\* a set with a ttl the server refuses has failed with the server reachable,
\* over an entry of another value that is still there
C33_Witness ==
    /\ last.op = "set" /\ ~last.ret /\ up
    /\ InvalidTTL(last.ttl)
    /\ last.prev # <<>> /\ ~last.prev[1].same
    /\ Years \in DOMAIN Live(store, now)
    /\ store[Years].exp = last.prev[1].exp


(***************************************************************************)
(* Reads: get and get_cached_query_result on an entry that set wrote, on   *)
(* text another program wrote under the same key, and on the key of the    *)
(* sorted set.                                                              *)
(***************************************************************************)
ReadKey == generate_key(Nearby, NearbyParams)

\* text that is not JSON, and the empty text
ForeignTexts == {"{\"t\": ", ""}

\* another client of the database writes text under a key (SET)
ForeignWrite(key, text) ==
    /\ up
    /\ store' = [k \in DOMAIN store \cup {key} |->
                   IF k = key THEN [data |-> text, exp |-> -1] ELSE store[k]]
    /\ meta' = [meta EXCEPT ![key] = Gone("overwritten")]
    /\ last' = NoCall
    /\ UNCHANGED <<now, up, HandlerVars, KeyVars, GeoVars>>

ReadInit ==
    /\ now = 0
    /\ up = TRUE
    /\ store = <<>>
    /\ meta = [k \in StoreKeys \cup {ReadKey, GeoPoints} |-> NoMeta]
    /\ last = NoCall
    /\ pc = <<>> /\ req = <<>> /\ res = <<>> /\ probe = <<>> /\ computes = <<>>
    /\ scanned = <<>>
    /\ kin = [n1 |-> Nearby, p1 |-> NearbyParams] /\ kout = <<>>
    /\ client = "star"
    /\ index = {}
    /\ placed = [n \in Names |-> <<>>]
    /\ geo = NoGeo

ReadNext ==
    \/ \E ttl \in {<<>>, <<1>>} : Set(ReadKey, Row, ttl)
    \/ \E text \in ForeignTexts : ForeignWrite(ReadKey, text)
    \/ StoreGeospatialPoint("a", 0, 0)
    \/ \E k \in {ReadKey, GeoPoints} : Get(k)
    \/ \E p \in {NearbyParams, LimitParams} : GetCachedQueryResult(Nearby, p)
    \/ Tick
    \/ BackendDown
    \/ BackendUp

ReadSpec == ReadInit /\ [][ReadNext]_vars

\* C34: a get or get_cached_query_result step, whether it hits, misses or
\* fails, leaves every entry with its value and its expiration; and in
\* every state an entry that set wrote expires when its last set fixed.
C34_GetReadOnly ==
    /\ [][last'.op \in {"get", "get_cached"} => (store' = store /\ index' = index)]_vars
    /\ [](\A k \in DOMAIN store : meta[k].set => store[k].exp = meta[k].due)

\* a get has hit, a second after the set, on an entry that expires later
C34_Witness ==
    /\ last.op = "get" /\ last.key = ReadKey /\ last.ret = Row
    /\ meta[ReadKey].set /\ now > 0
    /\ store[ReadKey].exp = meta[ReadKey].due

\* the database holds under key something get cannot decode
Undecodable(key) ==
    \/ HoldsSortedSet(Keyspace(store, index), now, key)
    \/ /\ key \in DOMAIN Live(store, now)
       /\ ~Loadable(store[key].data)

\* C36: with the server reachable, a get on a key that holds text that is
\* not JSON, or a sorted set, returns None, raises nothing and leaves the
\* entry as it is.
C36_UndecodableFailsClosed ==
    [][(last'.op = "get" /\ up /\ Undecodable(last'.key))
          => /\ last'.ret = PyNone /\ ~last'.raised
             /\ store' = store /\ index' = index]_vars

\* a get has returned None on text that is not JSON and is still there
C36_Witness ==
    /\ last.op = "get" /\ last.key = ReadKey /\ up
    /\ ReadKey \in DOMAIN store /\ store[ReadKey].data = "{\"t\": "
    /\ last.ret = PyNone /\ index # {}


(***************************************************************************)
(* The boundary and demographics wrappers, called for location ids with    *)
(* and without a colon, with the category given or omitted.                *)
(***************************************************************************)
WrapperIds == {<<"1">>, <<"1", ":", "p">>}

WrapperKeys ==
    {boundary_key(<<"1">>)} \cup {demographic_key(i, c) : i \in WrapperIds, c \in Categories}

GetLocationBoundaries(location_id) ==
    LET out == get_location_boundaries(Keyspace(store, index), now, up, location_id)
    IN /\ store' = Strings(out.store)
       /\ index' = SortedSet(out.store)
       /\ last' = Call("get_boundaries", boundary_key(location_id), <<>>, out, <<>>)
       /\ UNCHANGED <<now, up, meta, HandlerVars, KeyVars, client, placed, geo>>

GetDemographicData(location_id, category) ==
    LET out == get_demographic_data(Keyspace(store, index), now, up, location_id, category)
    IN /\ store' = Strings(out.store)
       /\ index' = SortedSet(out.store)
       /\ last' = Call("get_demographic", demographic_key(location_id, category),
                       <<>>, out, <<>>)
       /\ UNCHANGED <<now, up, meta, HandlerVars, KeyVars, client, placed, geo>>

WrapperInit ==
    /\ now = 0
    /\ up = TRUE
    /\ store = <<>>
    /\ meta = [k \in StoreKeys \cup WrapperKeys |-> NoMeta]
    /\ last = NoCall
    /\ pc = <<>> /\ req = <<>> /\ res = <<>> /\ probe = <<>> /\ computes = <<>>
    /\ scanned = <<>>
    /\ kin = <<>> /\ kout = <<>>
    /\ GeoIdle

\* the calls within the lifetime of the entries
WrapperNext ==
    \/ \E i \in WrapperIds, d \in {Row, PyList(<<Row>>)}, c \in Categories :
          StoreDemographicData(i, d, c)
    \/ \E i \in WrapperIds, c \in Categories : GetDemographicData(i, c)
    \/ StoreLocationBoundaries(<<"1">>, Row)
    \/ GetLocationBoundaries(<<"1">>)
    \/ BackendDown
    \/ BackendUp

WrapperSpec == WrapperInit /\ [][WrapperNext]_vars

\* C35 as stated: after a successful store_demographic_data(id, d, c),
\* get_demographic_data(id, c) returns d, get_demographic_data of every
\* other (id, category) pair returns what it returned before, and so does
\* get_location_boundaries; a store_location_boundaries changes what no
\* get_demographic_data returns.
C35_DistinctEntries ==
    [][(last'.op \in {"store_demographic", "store_boundaries"} /\ last'.ret)
          => LET call == last'.prev[1]
             IN /\ last'.op = "store_demographic"
                   => /\ get_demographic_data(store', now, up, call.id, call.category).ret
                            = call.data
                      /\ get_location_boundaries(store', now, up, <<"1">>).ret
                            = get_location_boundaries(store, now, up, <<"1">>).ret
                /\ \A i \in WrapperIds, c \in Categories :
                      (last'.op = "store_demographic" /\ i = call.id /\ c = call.category)
                         \/ get_demographic_data(store', now, up, i, c).ret
                               = get_demographic_data(store, now, up, i, c).ret]_vars

====
